---- MODULE Spec2Model ----
(***************************************************************************)
(* Model of src/hardbcbase.ipynb: a physics-informed network for the 1D    *)
(* advection-diffusion equation with a hard left boundary condition,       *)
(* trained by Adam (Phase A) and then LBFGS (Phase B) while a tracker      *)
(* keeps the best (epoch, loss, params) seen.                              *)
(*                                                                         *)
(* Numbers.  Floats are modelled by exact fixed-point integers:            *)
(*   x            in halves   (x = 1 is the integer 2)                     *)
(*   t            in tenths   (t = 0.1 is the integer 1)                   *)
(*   W, B         in halves                                                *)
(*   base_nn      in 20ths,  u in 40ths,  u_x, u_xx, u_t in 20ths          *)
(*   residual     in 200ths, lambda_t in fifths                            *)
(*   loss         in units of 1/(200000 * batch_size * N_b)                *)
(* and by the two IEEE values Inf and NaN the script can produce.          *)
(*                                                                         *)
(* The network is the one init_params builds for the layer list <<2, 1>>   *)
(* (no hidden layer): the loop over `hidden` in neural_net is empty and    *)
(* the output is the affine last layer.  The script is run twice (Runs),   *)
(* with the same JAX keys, so that two executions can be compared.         *)
(***************************************************************************)
EXTENDS Integers, Sequences, FiniteSets, TLC

(* ------------------------------ bounds --------------------------------- *)
\* Phase A epochs (20000 in the script) and Phase B epochs (250).
epochs == 2
epochs_lbfgs == 1
\* batch_size of the reference configuration (512 in the script).
RefBatchSize == 2
\* maxiter of the LBFGS solver (500 in the script).
maxiter == 2
\* The start states NumPy's global generator may take from the system.
Entropy == {1, 2}

(* ------------------------- IEEE special values ------------------------- *)
\* float('inf'); larger than every finite value of the model.
Inf == 2000000000
\* Not-a-number: the result of 0/0, inf*0 and the mean of an empty array.
NaN == 0 - 2000000000

\* F applied to the value of v, with v computed once (a local assignment
\* `x = v` followed by the use of x).
Eval(v, F(_)) == CHOOSE y \in {F(x) : x \in {v}} : TRUE

IsFinite(a) == a # Inf /\ a # NaN

\* IEEE comparison a < b: false as soon as either side is NaN.
Less(a, b) == a # NaN /\ b # NaN /\ a < b

\* IEEE addition of values that are >= 0, +inf or NaN.
XAdd(a, b) ==
    Eval(<<a, b>>, LAMBDA v :
        IF v[1] = NaN \/ v[2] = NaN THEN NaN
        ELSE IF v[1] = Inf \/ v[2] = Inf THEN Inf
        ELSE v[1] + v[2])

\* IEEE product of values that are >= 0, +inf or NaN (inf * 0 = NaN).
XMul(a, b) ==
    Eval(<<a, b>>, LAMBDA v :
        IF v[1] = NaN \/ v[2] = NaN THEN NaN
        ELSE IF v[1] = Inf THEN (IF v[2] = 0 THEN NaN ELSE Inf)
        ELSE IF v[2] = Inf THEN (IF v[1] = 0 THEN NaN ELSE Inf)
        ELSE v[1] * v[2])

Sign(a) == IF a > 0 THEN 1 ELSE IF a < 0 THEN 0 - 1 ELSE 0
Abs(a) == IF a < 0 THEN 0 - a ELSE a

(* ------------------------------ domain --------------------------------- *)
\* xmin, tmin of the script (x in halves, t in tenths).
xmin == 0
tmin == 0
\* xmax = 1.0 and tmax = 1.0 of the reference configuration.
RefXmax == 2
RefTmax == 10

\* The two executions of the script that are compared.
Runs == {1, 2}

VARIABLES
    xmax,           \* domain length, in halves
    tmax,           \* time horizon, in tenths
    batch_size,     \* hyperparameter batch_size
    pc,             \* pc[r]: "Init", "RunningPhaseA", "RunningPhaseB", "Done"
    epoch,          \* epoch[r]: the loop variable of the running phase
    np_state,       \* np_state[r]: state of NumPy's global generator
    params,         \* params[r]: the live ParameterSet
    opt_state,      \* opt_state[r]: Adam's state (count, first moment)
    best_params,    \* tracker: parameters of the snapshot
    best_loss,      \* tracker: loss of the snapshot
    best_epoch,     \* tracker: epoch index of the snapshot
    all_losses,     \* LossRecord: losses
    all_epochs,     \* LossRecord: epoch indices
    all_batches,    \* history: the batch colloc_batched of every epoch
    steps           \* history: the optimizer steps taken ("adam" / "lbfgs")

vars == <<xmax, tmax, batch_size, pc, epoch, np_state, params, opt_state,
          best_params, best_loss, best_epoch, all_losses, all_epochs,
          all_batches, steps>>

(* ------------------------- collocation points -------------------------- *)
\* The sampled points as fractions of the domain (fx in halves, ft in
\* tenths): two uniform points, one of the dense early region, and one of
\* the extra points on t = 0.
CollocFractions ==
    << [fx |-> 1, ft |-> 5], [fx |-> 2, ft |-> 10],
       [fx |-> 0, ft |-> 1], [fx |-> 1, ft |-> 0] >>

\* colloc: the fractions scaled to [xmin, xmax] x [tmin, tmax].
colloc ==
    [i \in 1..Len(CollocFractions) |->
        [x |-> xmin + (CollocFractions[i].fx * (xmax - xmin)) \div 2,
         t |-> tmin + (CollocFractions[i].ft * (tmax - tmin)) \div 10]]

\* t0: the initial-condition points (xb, tmin).
t0 == << [x |-> xmin + (xmax - xmin) \div 2, t |-> tmin] >>
N_b == Len(t0)

(* ------------------------------ network -------------------------------- *)
layers == <<2, 1>>

\* A ParameterSet: one record per layer, W the weight matrix (a column per
\* output) and B the bias vector.
Layer(w1, w2, b) == [W |-> <<w1, w2>>, B |-> b]
NaNParams == << Layer(NaN, NaN, NaN) >>
ParamsFinite(p) ==
    \A i \in 1..Len(p) :
        /\ IsFinite(p[i].B)
        /\ \A j \in 1..Len(p[i].W) : IsFinite(p[i].W[j])

\* init_params: Xavier-uniform weights in [-1/sqrt(2), 1/sqrt(2)), biases
\* in [0, 1).  The values jax.random.uniform draws for PRNGKey(0) are not
\* computed; any values in range may be the ones it returns.
InitParamSpace ==
    { << Layer(w1, w2, b) >> : w1 \in {0 - 1, 0, 1}, w2 \in {0 - 1, 0, 1},
                                b \in {0, 1} }

\* neural_net: X @ last.W + last.B for X = (x, y); in 20ths.
neural_net(p, x, y) ==
    LET last == p[Len(p)]
    IN  IF ~ParamsFinite(p) THEN NaN
        ELSE 5 * last.W[1] * x + last.W[2] * y + 10 * last.B

\* The wrapper with the factor x forgotten: u = base_nn + (1 - x), in 40ths.
hard_constraint_no_x(p, x, t) ==
    LET base_nn_output == neural_net(p, x, t)
    IN  IF base_nn_output = NaN THEN NaN
        ELSE base_nn_output * 2 + 20 * (2 - x)

\* neural_net_with_hard_constraint: u = base_nn * x + (1 - x), in 40ths.
neural_net_with_hard_constraint(p, x, t) ==
    LET base_nn_output == neural_net(p, x, t)
    IN  IF base_nn_output = NaN THEN NaN
        ELSE base_nn_output * x + 20 * (2 - x)

\* 1.0 in the unit of u.
One40 == 40

(* ------------------------- differential operator ----------------------- *)
\* jax.grad of u: the exact derivatives of
\*   u = (w1 x + w2 t + b) x + 1 - x,   in 20ths.
u_x(p, x, t) == 10 * p[1].W[1] * x + p[1].W[2] * t + 10 * p[1].B - 20
u_xx(p, x, t) == 20 * p[1].W[1]
u_t(p, x, t) == 5 * p[1].W[2] * x

\* pde_residual_2d_darcy, first result: u_t - 0.1 * (-u_x + u_xx), in 200ths.
pde_residual(p, x, t) ==
    10 * u_t(p, x, t) - ((0 - u_x(p, x, t)) + u_xx(p, x, t))

\* pde_residual_2d_darcy, second result: ic1 = u(t0) - 0, in 40ths.
ic1(p, i) == neural_net_with_hard_constraint(p, t0[i].x, t0[i].t)

(* ---------------------------- loss assembler --------------------------- *)
\* The breakpoint t = 0.1 of the weighting schedule, in tenths.
Breakpoint == 1

\* Early branch 200*(1 - (t - tmin)/0.1)^2 + 1, in fifths.
lambda_early(t) == 1000 * (1 - (t - tmin)) * (1 - (t - tmin)) + 5

\* Late branch 20*(1 - (t - tmin)/(tmax - tmin))^2 + 1, in fifths.  The
\* division is a float division: x/0 is inf and 0/0 is NaN, no exception.
lambda_late(t) ==
    LET D == tmax - tmin
        d == t - tmin
    IN  IF D = 0 THEN (IF d = 0 THEN NaN ELSE Inf)
        ELSE (100 * (D - d) * (D - d)) \div (D * D) + 5

\* lambda_t = early * (t <= 0.1) + late * (t > 0.1): both branches are
\* evaluated and multiplied by their 0/1 masks.
lambda_t(t) ==
    XAdd(XMul(lambda_early(t), IF t <= Breakpoint THEN 1 ELSE 0),
         XMul(lambda_late(t), IF t > Breakpoint THEN 1 ELSE 0))

RECURSIVE PdeSum(_, _, _)
\* Sum over the first k batch points of lambda_t * pde_residual^2.
PdeSum(p, batch, k) ==
    IF k = 0 THEN 0
    ELSE XAdd(PdeSum(p, batch, k - 1),
              XMul(lambda_t(batch[k].t),
                   pde_residual(p, batch[k].x, batch[k].t)
                     * pde_residual(p, batch[k].x, batch[k].t)))

RECURSIVE IcSum(_, _)
\* Sum over the first k initial-condition points of ic1^2.
IcSum(p, k) ==
    IF k = 0 THEN 0 ELSE IcSum(p, k - 1) + ic1(p, k) * ic1(p, k)

\* loss_fun = mean(lambda_t * residual^2) + 100 * mean(ic1^2), in units of
\* 1/(200000 * batch_size * N_b).  jnp.mean of an empty batch is NaN.
loss_fun(p, batch) ==
    IF ~ParamsFinite(p) \/ Len(batch) = 0 THEN NaN
    ELSE XAdd(XMul(N_b, PdeSum(p, batch, Len(batch))),
              12500 * Len(batch) * IcSum(p, N_b))

\* d pde_residual / d (W1, W2, B) and d ic1 / d (W1, W2, B).
DResidual(x, t) == << 10 * x - 20, 50 * x + t, 10 >>
DIc(x, t) == << 5 * x * x, t * x, 10 * x >>

RECURSIVE PdeGrad(_, _, _, _)
PdeGrad(p, batch, k, c) ==
    IF k = 0 THEN 0
    ELSE PdeGrad(p, batch, k - 1, c)
         + lambda_t(batch[k].t) * pde_residual(p, batch[k].x, batch[k].t)
             * DResidual(batch[k].x, batch[k].t)[c]

RECURSIVE IcGrad(_, _, _)
IcGrad(p, k, c) ==
    IF k = 0 THEN 0
    ELSE IcGrad(p, k - 1, c) + ic1(p, k) * DIc(t0[k].x, t0[k].t)[c]

\* jax.grad(loss_fun) with respect to (W1, W2, B), up to the factor 2; NaN
\* in every component when the loss is not finite.
loss_grad(p, batch) ==
    IF ~IsFinite(loss_fun(p, batch)) THEN << NaN, NaN, NaN >>
    ELSE [c \in 1..3 |->
            N_b * PdeGrad(p, batch, Len(batch), c)
            + 12500 * Len(batch) * IcGrad(p, N_b, c)]

(* ---------------------------- optimizer driver ------------------------- *)
RECURSIVE Pow10(_)
Pow10(k) == IF k = 0 THEN 1 ELSE 10 * Pow10(k - 1)

\* optimizer.init(params): Adam's step count and first moment.
AdamInit == [count |-> 0, mu |-> << 0, 0, 0 >>]

\* A gradient component rounded away from zero to a multiple of 10^5.
Quantise(g) == Sign(g) * ((Abs(g) + 99999) \div 100000)

\* optimizer.update: Adam's first moment mu' = 0.9 mu + 0.1 g, kept times
\* 10^count.  A non-finite gradient makes the moments NaN.
AdamMoment(os, grads) ==
    IF grads[1] = NaN \/ os.mu[1] = NaN THEN << NaN, NaN, NaN >>
    ELSE [c \in 1..3 |->
             9 * os.mu[c] + Pow10(os.count) * Quantise(grads[c])]

\* optax.apply_updates(params, updates): Adam's step -lr * mu/sqrt(nu) is
\* one grid step against the sign of d = mu; NaN moments give NaN params.
ApplyUpdates(p, d) ==
    IF d[1] = NaN THEN NaNParams
    ELSE << Layer(p[1].W[1] - Sign(d[1]), p[1].W[2] - Sign(d[2]),
                  p[1].B - Sign(d[3])) >>

\* update: value and gradient of loss_fun at the params passed in, one Adam
\* step, and the result (opt_state, updated params, value).
update(os, p, batch) ==
    Eval(loss_grad(p, batch), LAMBDA grads :
    Eval(AdamMoment(os, grads), LAMBDA mu :
        [opt_state |-> [count |-> os.count + 1, mu |-> mu],
         params |-> ApplyUpdates(p, mu),
         value |-> loss_fun(p, batch)]))

RECURSIVE lbfgs_run(_, _, _)
\* solver.run: at most k iterations, each a step along the descent
\* direction that the line search accepts only if the loss decreases;
\* stops when the gradient vanishes or no decrease is found.
lbfgs_run(p, batch, k) ==
    IF k = 0 THEN p
    ELSE Eval(loss_grad(p, batch), LAMBDA g :
            IF g[1] = NaN THEN NaNParams
            ELSE IF g = << 0, 0, 0 >> THEN p
            ELSE Eval(ApplyUpdates(p, g), LAMBDA cand :
                    IF Less(loss_fun(cand, batch), loss_fun(p, batch))
                    THEN lbfgs_run(cand, batch, k - 1)
                    ELSE p))

\* update_lbfgs: LBFGS(fun=loss_fun, maxiter=...).run(params, colloc).params
update_lbfgs(p, batch) == lbfgs_run(p, batch, maxiter)

(* ------------------------------ batch draw ----------------------------- *)
\* One step of NumPy's global generator (never seeded by the script).
RngNext(s) == (3 * s) % 7

RECURSIVE np_random_choice(_, _, _)
\* np.random.choice(n, size): `size` indices in 0..n-1, and the state after.
np_random_choice(s, n, size) ==
    IF size = 0 THEN [state |-> s, out |-> << >>]
    ELSE LET rest == np_random_choice(s, n, size - 1)
             s2   == RngNext(rest.state)
         IN  [state |-> s2, out |-> Append(rest.out, s2 % n)]

\* colloc[np.random.choice(colloc.shape[0], size=batch_size)]
Draw(s) ==
    LET c == np_random_choice(s, Len(colloc), batch_size)
    IN  [state |-> c.state,
         batch |-> [i \in 1..batch_size |-> colloc[c.out[i] + 1]]]
(* --------------------------- best-model tracker ------------------------ *)
\* A tracker that overwrites whenever the loss differs from the stored one.
ImprovesIfDifferent(current_loss, best) == current_loss # best

\* A tracker that also overwrites on a tie.
ImprovesOrTies(current_loss, best) ==
    current_loss # NaN /\ best # NaN /\ current_loss <= best

\* if current_loss < best_loss
Improves(current_loss, best) == Less(current_loss, best)

(* ------------------------------ training run --------------------------- *)
\* The reference configuration of the script.
RefConfig ==
    /\ xmax = RefXmax
    /\ tmax = RefTmax
    /\ batch_size = RefBatchSize

\* The state once the hyperparameters, the parameters and the optimizer
\* state are initialised and the tracker variables hold their first values.
\* Both runs use PRNGKey(0), so they start from the same ParameterSet; the
\* state of NumPy's generator comes from the operating system.
InitRun ==
    /\ pc = [r \in Runs |-> "Init"]
    /\ epoch = [r \in Runs |-> 0]
    /\ np_state \in [Runs -> Entropy]
    /\ \E p \in InitParamSpace :
          /\ params = [r \in Runs |-> p]
          /\ best_params = [r \in Runs |-> p]
    /\ opt_state = [r \in Runs |-> AdamInit]
    /\ best_loss = [r \in Runs |-> Inf]
    /\ best_epoch = [r \in Runs |-> 0]
    /\ all_losses = [r \in Runs |-> << >>]
    /\ all_epochs = [r \in Runs |-> << >>]
    /\ all_batches = [r \in Runs |-> << >>]
    /\ steps = [r \in Runs |-> << >>]

Init == RefConfig /\ InitRun

\* 'PINN training started...': the tracker and the LossRecord are reset and
\* the Phase A loop is entered.
StartTraining(r) ==
    /\ pc[r] = "Init"
    /\ pc' = [pc EXCEPT ![r] = "RunningPhaseA"]
    /\ epoch' = [epoch EXCEPT ![r] = 0]
    /\ best_params' = [best_params EXCEPT ![r] = params[r]]
    /\ best_loss' = [best_loss EXCEPT ![r] = Inf]
    /\ best_epoch' = [best_epoch EXCEPT ![r] = 0]
    /\ all_losses' = [all_losses EXCEPT ![r] = << >>]
    /\ all_epochs' = [all_epochs EXCEPT ![r] = << >>]
    /\ UNCHANGED <<xmax, tmax, batch_size, np_state, params, opt_state,
                   all_batches, steps>>

\* A snapshot that shares its storage with the live parameters and is
\* overwritten in place by the optimizer step.
SnapshotOverwrittenInPlace(snapshot, live) == live

\* What the name best_params holds after an optimizer step whose result
\* was not recorded.  update and update_lbfgs build a new parameter list
\* (optax.apply_updates, res.params) and the loops rebind the name params
\* to it; the arrays behind best_params are immutable and are not touched,
\* so the snapshot keeps its value whatever the new live parameters are.
SnapshotAfterStep(snapshot, live) == snapshot

\* The tracker and the LossRecord after an epoch that recorded
\* (index, current_loss) with the live parameters p.
Record(r, index, current_loss, p) ==
    /\ all_losses' = [all_losses EXCEPT ![r] = Append(@, current_loss)]
    /\ all_epochs' = [all_epochs EXCEPT ![r] = Append(@, index)]
    /\ IF Improves(current_loss, best_loss[r])
       THEN /\ best_loss' = [best_loss EXCEPT ![r] = current_loss]
            /\ best_params' = [best_params EXCEPT ![r] = p]
            /\ best_epoch' = [best_epoch EXCEPT ![r] = index]
       ELSE /\ best_params' =
                [best_params EXCEPT ![r] = SnapshotAfterStep(@, p)]
            /\ UNCHANGED <<best_loss, best_epoch>>

\* A Phase A loop that stops after its first epoch.
PhaseAExhaustedEarly(r) == epoch[r] >= 1

\* The last value of range(epochs+1) is exceeded.
PhaseAExhausted(r) == epoch[r] > epochs

\* The last value of range(epochs_lbfgs+1) is exceeded.
PhaseBExhausted(r) == epoch[r] > epochs_lbfgs

\* One iteration of `for epoch in range(epochs+1)`.
PhaseAEpoch(r) ==
    /\ pc[r] = "RunningPhaseA"
    /\ ~PhaseAExhausted(r)
    /\ \E draw \in {Draw(np_state[r])} :
       \E res \in {update(opt_state[r], params[r], draw.batch)} :
           /\ np_state' = [np_state EXCEPT ![r] = draw.state]
           /\ opt_state' = [opt_state EXCEPT ![r] = res.opt_state]
           /\ params' = [params EXCEPT ![r] = res.params]
           /\ Record(r, epoch[r], res.value, res.params)
           /\ all_batches' = [all_batches EXCEPT ![r] = Append(@, draw.batch)]
    /\ steps' = [steps EXCEPT ![r] = Append(@, "adam")]
    /\ epoch' = [epoch EXCEPT ![r] = @ + 1]
    /\ UNCHANGED <<xmax, tmax, batch_size, pc>>

\* The Phase A loop ends; 'Starting LBFGS fine-tuning...'.
FinishPhaseA(r) ==
    /\ pc[r] = "RunningPhaseA"
    /\ PhaseAExhausted(r)
    /\ pc' = [pc EXCEPT ![r] = "RunningPhaseB"]
    /\ epoch' = [epoch EXCEPT ![r] = 0]
    /\ UNCHANGED <<xmax, tmax, batch_size, np_state, params, opt_state,
                   best_params, best_loss, best_epoch, all_losses,
                   all_epochs, all_batches, steps>>

\* One iteration of `for epoch in range(epochs_lbfgs+1)`.
PhaseBEpoch(r) ==
    /\ pc[r] = "RunningPhaseB"
    /\ ~PhaseBExhausted(r)
    /\ \E draw \in {Draw(np_state[r])} :
       \E new \in {update_lbfgs(params[r], draw.batch)} :
       \E current_loss \in {loss_fun(new, draw.batch)} :
           /\ np_state' = [np_state EXCEPT ![r] = draw.state]
           /\ params' = [params EXCEPT ![r] = new]
           /\ Record(r, epoch[r] + epochs, current_loss, new)
           /\ all_batches' = [all_batches EXCEPT ![r] = Append(@, draw.batch)]
    /\ steps' = [steps EXCEPT ![r] = Append(@, "lbfgs")]
    /\ epoch' = [epoch EXCEPT ![r] = @ + 1]
    /\ UNCHANGED <<xmax, tmax, batch_size, pc, opt_state>>

\* The Phase B loop ends; 'PINN training done!'.
FinishTraining(r) ==
    /\ pc[r] = "RunningPhaseB"
    /\ PhaseBExhausted(r)
    /\ pc' = [pc EXCEPT ![r] = "Done"]
    /\ UNCHANGED <<xmax, tmax, batch_size, epoch, np_state, params,
                   opt_state, best_params, best_loss, best_epoch,
                   all_losses, all_epochs, all_batches, steps>>

RunNext(r) ==
    \/ StartTraining(r)
    \/ PhaseAEpoch(r)
    \/ FinishPhaseA(r)
    \/ PhaseBEpoch(r)
    \/ FinishTraining(r)

Next == \E r \in Runs : RunNext(r)

Spec == Init /\ [][Next]_vars

\* The script runs to completion: every loop is a bounded for-loop and a
\* run that can take a step takes it.
FairSpec == Spec /\ \A r \in Runs : WF_vars(RunNext(r))

(* ------------------- degenerate configurations ------------------------- *)
\* A zero-width domain, a zero-duration domain or an empty batch.
Degenerate == xmax = xmin \/ tmax = tmin \/ batch_size = 0

\* The script started with any of the configurations, degenerate or not.
InitAnyConfig ==
    /\ xmax \in {xmin, RefXmax}
    /\ tmax \in {tmin, RefTmax}
    /\ batch_size \in {0, RefBatchSize}
    /\ InitRun

ConfigSpec == InitAnyConfig /\ [][Next]_vars

(* ------------------------------ helpers -------------------------------- *)
\* Number of entries of the sequence s equal to v.
Count(s, v) == Cardinality({i \in 1..Len(s) : s[i] = v})

\* Least value of a non-empty sequence of finite numbers.
MinOf(s) == CHOOSE m \in {s[i] : i \in 1..Len(s)} :
               \A i \in 1..Len(s) : m <= s[i]

\* First position of v in s.
FirstIndex(s, v) == CHOOSE i \in 1..Len(s) :
                       s[i] = v /\ \A j \in 1..(i - 1) : s[j] # v

\* The snapshot of run r has been written by some epoch.
SnapshotSet(r) == best_loss[r] # Inf

(* ------------------------------- C1 ------------------------------------ *)
\* The times at which the boundary is evaluated (0.0, 0.1, ..., 1.0).
TGrid == 0..RefTmax

\* C1: in every state of the training run, the constrained forward model
\* evaluated at x = 0 returns exactly 1.0 at every time t, for the live
\* parameters and for the snapshot's parameters of every run.
C1_BoundaryInvariant ==
    \A r \in Runs : \A t \in TGrid :
        /\ neural_net_with_hard_constraint(params[r], 0, t) = One40
        /\ neural_net_with_hard_constraint(best_params[r], 0, t) = One40

\* A finished run whose trained parameters differ from the snapshot's and
\* whose raw network output at x = 0 is not 0 for either of them.
C1_Witness ==
    \E r \in Runs :
        /\ pc[r] = "Done"
        /\ params[r] # best_params[r]
        /\ neural_net(params[r], 0, 5) # 0
        /\ neural_net(best_params[r], 0, 5) # 0

(* ------------------------------- C2 ------------------------------------ *)
\* C2: no step of the run, in Phase A or Phase B, increases the tracker's
\* stored best_loss.
C2_BestLossNonIncreasing ==
    [][\A r \in Runs : best_loss'[r] <= best_loss[r]]_vars

\* The live loss went up from one epoch to the next, in Phase B, while the
\* stored best stayed below it.
C2_Witness ==
    \E r \in Runs : \E j \in 2..Len(all_losses[r]) :
        /\ steps[r][j] = "lbfgs"
        /\ all_losses[r][j] > all_losses[r][j - 1]
        /\ best_loss[r] < all_losses[r][j]

(* ------------------------------- C3 ------------------------------------ *)
\* The batch of the epoch that wrote the snapshot.
BestBatch(r) == all_batches[r][FirstIndex(all_losses[r], best_loss[r])]

\* C3: whenever the snapshot is set, best_loss is the loss of best_params on
\* the batch of the epoch that wrote the snapshot.
C3_SnapshotLossIsLossOfSnapshotParams ==
    \A r \in Runs :
        SnapshotSet(r) => best_loss[r] = loss_fun(best_params[r], BestBatch(r))

(* ------------------------------- C4 ------------------------------------ *)
\* After every epoch best_loss is the least recorded loss and best_epoch is
\* the index recorded with its first occurrence.
BestIsFirstMin ==
    \A r \in Runs :
        Len(all_losses[r]) > 0 =>
            /\ best_loss[r] = MinOf(all_losses[r])
            /\ best_epoch[r] =
                  all_epochs[r][FirstIndex(all_losses[r], best_loss[r])]

\* An epoch overwrites the snapshot only if its loss is strictly below the
\* stored best; otherwise (a tie included) the snapshot is left as it was.
OverwriteOnlyIfStrictlyLess ==
    \A r \in Runs :
        Len(all_losses'[r]) = Len(all_losses[r]) + 1 =>
            LET loss == all_losses'[r][Len(all_losses'[r])]
            IN  IF loss < best_loss[r]
                THEN best_loss'[r] = loss
                ELSE /\ best_loss'[r] = best_loss[r]
                     /\ best_params'[r] = best_params[r]
                     /\ best_epoch'[r] = best_epoch[r]

\* C4: best_loss is the minimum of the LossRecord after every epoch, the
\* snapshot is overwritten only on a strict improvement, and best_epoch is
\* the earliest index that achieved the minimum.
C4_BestIsMinStrictOverwrite ==
    [](BestIsFirstMin) /\ [][OverwriteOnlyIfStrictlyLess]_vars

\* An epoch whose loss equals the stored best has been recorded after the
\* epoch that set it, under another index, and the snapshot still names the
\* earlier one.
C4_Witness ==
    \E r \in Runs : \E i, j \in 1..Len(all_losses[r]) :
        /\ i < j
        /\ all_losses[r][i] = best_loss[r]
        /\ all_losses[r][j] = best_loss[r]
        /\ all_epochs[r][i] # all_epochs[r][j]
        /\ best_epoch[r] = all_epochs[r][i]

(* ------------------------------- C5 ------------------------------------ *)
\* The only transitions are Init -> RunningPhaseA -> RunningPhaseB -> Done.
PhaseOrder ==
    \A r \in Runs :
        pc'[r] # pc[r] =>
            <<pc[r], pc'[r]>> \in { <<"Init", "RunningPhaseA">>,
                                    <<"RunningPhaseA", "RunningPhaseB">>,
                                    <<"RunningPhaseB", "Done">> }

\* Optimizer steps are taken only inside their phase, and no Adam step
\* follows an LBFGS step.
NoInterleaving ==
    \A r \in Runs :
        /\ steps'[r] # steps[r] =>
              /\ pc[r] = pc'[r]
              /\ steps'[r][Len(steps'[r])] =
                    (IF pc[r] = "RunningPhaseA" THEN "adam" ELSE "lbfgs")
              /\ pc[r] \in {"RunningPhaseA", "RunningPhaseB"}
        /\ \A i, j \in 1..Len(steps[r]) :
              i < j /\ steps[r][i] = "lbfgs" => steps[r][j] = "lbfgs"

\* A phase is left only when its loop has run through its whole range.
NoEarlyExit ==
    \A r \in Runs :
        /\ pc[r] = "RunningPhaseA" /\ pc'[r] # pc[r] =>
              all_epochs[r] = [i \in 1..(epochs + 1) |-> i - 1]
        /\ pc[r] = "RunningPhaseB" /\ pc'[r] # pc[r] =>
              Count(steps[r], "lbfgs") = epochs_lbfgs + 1

\* C5: the run moves Init -> RunningPhaseA -> RunningPhaseB -> Done and
\* never back, the phases do not interleave, no phase is left early, and
\* every run eventually reaches Done.
C5_StateMachine ==
    /\ [][PhaseOrder /\ NoInterleaving /\ NoEarlyExit]_vars
    /\ <>(\A r \in Runs : pc[r] = "Done")

\* Both runs are Done after Adam steps followed by LBFGS steps.
C5_Witness ==
    \A r \in Runs :
        /\ pc[r] = "Done"
        /\ Count(steps[r], "adam") > 0
        /\ Count(steps[r], "lbfgs") > 0

(* ------------------------------- C6 ------------------------------------ *)
\* C6: at Done, Phase A has taken exactly `epochs` optimizer steps, Phase B
\* exactly `epochs_lbfgs`, and the LossRecord holds epochs + epochs_lbfgs
\* entries.
C6_ExactEpochCounts ==
    \A r \in Runs :
        pc[r] = "Done" =>
            /\ Count(steps[r], "adam") = epochs
            /\ Count(steps[r], "lbfgs") = epochs_lbfgs
            /\ Len(all_losses[r]) = epochs + epochs_lbfgs

(* ------------------------------- C7 ------------------------------------ *)
\* C7: the epoch indices of the LossRecord are strictly increasing over the
\* whole run, so no index of Phase B repeats an index of Phase A.
C7_EpochIndicesStrictlyIncreasing ==
    \A r \in Runs : \A i, j \in 1..Len(all_epochs[r]) :
        i < j => all_epochs[r][i] < all_epochs[r][j]

(* ------------------------------- C8 ------------------------------------ *)
\* C8: for the configured domain tmin = 0, tmax = 1, the early and the late
\* branch of the weighting schedule agree at the breakpoint t = 0.1.
C8_WeightingContinuousAtBreakpoint ==
    (tmin = 0 /\ tmax = RefTmax) =>
        lambda_early(Breakpoint) = lambda_late(Breakpoint)

(* ------------------------------- C9 ------------------------------------ *)
\* C9: two runs with the same seeds that have run the same number of epochs
\* have drawn the same batches and hold the same parameters, the same
\* LossRecord and the same snapshot.
C9_Reproducible ==
    \A r1, r2 \in Runs :
        (pc[r1] = pc[r2] /\ epoch[r1] = epoch[r2]) =>
            /\ all_batches[r1] = all_batches[r2]
            /\ params[r1] = params[r2]
            /\ all_losses[r1] = all_losses[r2]
            /\ best_epoch[r1] = best_epoch[r2]
            /\ best_loss[r1] = best_loss[r2]
            /\ best_params[r1] = best_params[r2]

(* ------------------------------- C10 ----------------------------------- *)
\* C10: under a degenerate configuration no optimizer step is ever taken:
\* the run is stopped before the first step of Phase A (it never gets to
\* Phase B or Done) with the parameters, the optimizer state, the
\* LossRecord and the snapshot at their initial values.
C10_DegenerateFailsFast ==
    Degenerate =>
        \A r \in Runs :
            /\ pc[r] \notin {"RunningPhaseB", "Done"}
            /\ steps[r] = << >>
            /\ opt_state[r] = AdamInit
            /\ params[r] \in InitParamSpace
            /\ best_params[r] = params[r]
            /\ all_losses[r] = << >>
            /\ best_loss[r] = Inf

(* ------------------------------- C11 ----------------------------------- *)
\* An optimizer step of run r (Adam or LBFGS) taken after a snapshot was
\* recorded, whose loss does not strictly improve on best_loss.
NonImprovingStep(r) ==
    /\ SnapshotSet(r)
    /\ Len(steps'[r]) = Len(steps[r]) + 1
    /\ Len(all_losses'[r]) = Len(all_losses[r]) + 1
    /\ ~Less(all_losses'[r][Len(all_losses'[r])], best_loss[r])

====
